---- MODULE Spec2Model ----
(***************************************************************************)
(* The negotiation backend of src/quote.py as a state machine.             *)
(*                                                                         *)
(* State: the three tables of the SQLite database (negotiation_sessions,   *)
(* suppliers, messages), the requests the threaded Flask server has in     *)
(* flight, the string-hash seed of the running process, and the last HTTP  *)
(* response sent.  A request reads rows into its own SQLAlchemy session    *)
(* (a snapshot), waits for the completion service, and writes at           *)
(* db.session.commit(): every commit is one atomic step, and the steps of  *)
(* different requests interleave freely (the code takes no lock).          *)
(*                                                                         *)
(* Row ids are positions in the table sequences (autoincrement keys).      *)
(* Message order inside a table is creation order (Message.created_at).    *)
(* Free text (message content, prompts) is not stored: the only thing the  *)
(* code ever computes from a generated text is                             *)
(* extract_price_from_message(text), which is drawn from ExtractedPrices.  *)
(* Prices are whole dollars; NULL stands for SQL NULL / Python None.       *)
(*                                                                         *)
(* The document analysis of src/app.py is a request of its own kind that   *)
(* touches no table.  The pure functions of src/quote.py (the price        *)
(* extractor, the pricing strategy) are also checked on their own: `call`  *)
(* holds the function call under evaluation, its arguments and its result. *)
(***************************************************************************)
EXTENDS Integers, Sequences, FiniteSets, TLC

----------------------------------------------------------------------------
(* Bounds of the model *)

\* Requests the server handles at the same time.
NumWorkers == 2
\* Names the completion service suggests, at most.
MaxSuggested == 1
\* Seeds of the string hash: 0..MaxSeed.
MaxSeed == 0
\* Every run is capped by a record of limits: the rows it may create and
\* the requests it may commit.  Interleaved runs (Spec) are explored wide
\* (two suppliers, a short negotiation) and deep (one supplier, a longer
\* negotiation); one-request-at-a-time runs (SeqSpec) likewise, further.
WideSessions == 1
WideSuppliers == 2
WideAdvances == 1
WideAccepts == 1
DeepSessions == 1
DeepSuppliers == 1
DeepAdvances == 3
DeepAccepts == 2
SeqWideSessions == 2
SeqWideSuppliers == 2
SeqWideAdvances == 1
SeqWideAccepts == 1
SeqDeepSessions == 1
SeqDeepSuppliers == 1
SeqDeepAdvances == 4
SeqDeepAccepts == 2

Limit(s, p, adv, acc) ==
  [sessions |-> s, suppliers |-> p, advances |-> adv, accepts |-> acc]

Limits ==
  {Limit(WideSessions, WideSuppliers, WideAdvances, WideAccepts),
   Limit(DeepSessions, DeepSuppliers, DeepAdvances, DeepAccepts)}

SeqLimits ==
  {Limit(SeqWideSessions, SeqWideSuppliers, SeqWideAdvances, SeqWideAccepts),
   Limit(SeqDeepSessions, SeqDeepSuppliers, SeqDeepAdvances, SeqDeepAccepts)}

MaxSuppliers == SeqWideSuppliers

(* Program constants *)

NULL == -1
FinalRound == 2

Workers == 1..NumWorkers
HashSeeds == 0..MaxSeed

\* data['targetPrice'] is not validated: zero is accepted like any number.
TargetPrices == {0, 100}

\* data.get('numSuppliers', 5): any integer the caller sends.
NumSuppliersInputs == -1..MaxSuppliers

\* What extract_price_from_message finds in a generated supplier text.
ExtractedPrices == {NULL, 0, 120}

VARIABLES sessions, suppliers, messages, req, hashseed, history, limits, call,
          created

vars ==
  <<sessions, suppliers, messages, req, hashseed, history, limits, call, created>>

db == <<sessions, suppliers, messages>>

----------------------------------------------------------------------------
(* Helpers *)

Min(a, b) == IF a < b THEN a ELSE b

Max(a, b) == IF a > b THEN a ELSE b

\* Python truthiness of an optional float: None and 0.0 are falsy.
Truthy(x) == x # NULL /\ x # 0

\* Python `a or b` on optional floats.
PyOr(a, b) == IF Truthy(a) THEN a ELSE b

\* Python list[:n] (n may be negative).
PySlice(s, n) ==
  IF n >= 0 THEN SubSeq(s, 1, Min(n, Len(s)))
  ELSE SubSeq(s, 1, Max(0, Len(s) + n))

RECURSIVE FilterSeq(_, _, _)
FilterSeq(s, sid, snd) ==
  IF s = <<>> THEN <<>>
  ELSE LET rest == FilterSeq(Tail(s), sid, snd)
       IN IF Head(s).supplier_id = sid /\ (snd = "any" \/ Head(s).sender = snd)
          THEN <<Head(s)>> \o rest ELSE rest

\* supplier.messages: the supplier's messages in creation order.
MessagesOf(msgs, sid) == FilterSeq(msgs, sid, "any")

\* Message.query.filter_by(supplier_id=..., sender='supplier')
SupplierMessages(msgs, sid) == FilterSeq(msgs, sid, "supplier")

BuyerMessages(msgs, sid) == FilterSeq(msgs, sid, "buyer")

Last(s) == s[Len(s)]

\* session.suppliers: the ids of the session's suppliers, in id order.
RECURSIVE SuppliersFrom(_, _, _)
SuppliersFrom(sups, session_id, i) ==
  IF i > Len(sups) THEN <<>>
  ELSE IF sups[i].session_id = session_id
       THEN <<i>> \o SuppliersFrom(sups, session_id, i + 1)
       ELSE SuppliersFrom(sups, session_id, i + 1)

SuppliersOf(sups, session_id) == SuppliersFrom(sups, session_id, 1)

----------------------------------------------------------------------------
(* Rows *)

NewSession(tp) == [target_price |-> tp, status |-> "active"]

NewSupplier(session_id, name) ==
  [session_id |-> session_id, company_name |-> name,
   initial_price |-> NULL, final_price |-> NULL,
   status |-> "pending", negotiation_round |-> 0]

NewMessage(supplier_id, sender, price) ==
  [supplier_id |-> supplier_id, sender |-> sender, price_mentioned |-> price]

NoSupplier == NewSupplier(0, <<"none", 0>>)

----------------------------------------------------------------------------
(* Requirement extraction and supplier names *)

AiName(j) == <<"ai", j>>

DefaultName(j) == <<"default", j>>

\* f"Qualified Contractor #{i}"
Placeholder(i) == <<"Qualified Contractor #", i>>

AiSuggested(k) == [j \in 1..k |-> AiName(j)]

\* The fallback record's five names.
DefaultSuggested == [j \in 1..5 |-> DefaultName(j)]

\* Outcomes of extract_requirements_from_opportunity: the completion call
\* raises ("error"); its reply is not JSON ("unparsable", the fallback
\* record is returned); its reply is JSON but no object ("nondict"); or it
\* is an object suggesting k names.
Extractions ==
  {[kind |-> "error", suggested |-> <<>>],
   [kind |-> "unparsable", suggested |-> DefaultSuggested],
   [kind |-> "nondict", suggested |-> <<>>]}
  \cup {[kind |-> "json", suggested |-> AiSuggested(k)] : k \in 0..MaxSuggested}

RECURSIVE PadNamesFromZero(_, _)
PadNamesFromZero(names, n) ==
  IF Len(names) < n
  THEN PadNamesFromZero(Append(names, Placeholder(Len(names))), n)
  ELSE names

RECURSIVE PadNames(_, _)
PadNames(names, n) ==
  IF Len(names) < n
  THEN PadNames(Append(names, Placeholder(Len(names) + 1)), n)
  ELSE names

SupplierNames(suggested, n) == PadNames(PySlice(suggested, n), n)

----------------------------------------------------------------------------
(* Pricing strategy *)

NameCode(name) ==
  IF name[1] = "ai" THEN name[2]
  ELSE IF name[1] = "default" THEN 10 + name[2]
  ELSE 20 + name[2]

\* Python's hash() of a str: a function of the string and of the seed the
\* process drew at start-up (PYTHONHASHSEED).  suffix is 0 for the bare name
\* and 1 + round for name + str(round).
StrHash(name, suffix, seed) == NameCode(name) * 7 + suffix * 3 + seed * 11

MultiplierPercent(name, round_num, seed) ==
  IF round_num = 0 THEN 150 + (StrHash(name, 0, seed) % 30)
  ELSE IF round_num = 1 THEN 125 + (StrHash(name, 1 + round_num, seed) % 20)
  ELSE 110 + (StrHash(name, 1 + round_num, seed) % 15)

SuggestedPrice(name, round_num, target_price, seed) ==
  (target_price * MultiplierPercent(name, round_num, seed)) \div 100

----------------------------------------------------------------------------
(* Requests in flight *)

\* The body of a response not looked at.  raw_output is <<>> when the body
\* carries no raw reply text, and <<text>> when it carries one.
NoBody == [kind |-> "none", raw_output |-> <<>>]

Idle ==
  [pc |-> "idle", op |-> "none", session_id |-> 0, supplier_id |-> 0,
   target_price |-> 0, sup |-> NoSupplier, count |-> 0,
   num_suppliers |-> 0, suggested |-> <<>>, names |-> <<>>, pending |-> 0,
   extraction |-> "none", code |-> 0, body |-> NoBody]

IsIdle(w) == req[w].pc = "idle"

\* A new request is served by the first free thread.
CanStart(w) == IsIdle(w) /\ \A v \in Workers : v < w => ~IsIdle(v)

\* The handler has returned or raised: the response to the call
\* op(session_id, supplier_id) is on its way to the caller.
Response(op, session_id, supplier_id, code) ==
  [Idle EXCEPT !.pc = "done", !.op = op, !.session_id = session_id,
               !.supplier_id = supplier_id, !.code = code]

RECURSIVE SumSeq(_)
SumSeq(s) == IF s = <<>> THEN 0 ELSE Head(s) + SumSeq(Tail(s))

\* Requests of kind op that have been taken and have not answered yet.
InFlight(op) == Cardinality({w \in Workers : req[w].op = op /\ req[w].pc # "done"})

\* Supplier rows the creates in flight have still to insert.
NamesInFlight == SumSeq([w \in Workers |-> Len(req[w].names)])

\* created: the ids of the sessions whose create-negotiation request ran to
\* its last commit and answered 200.
\* history[p]: how many advance and accept requests have committed on
\* supplier p.
NoHistory == [advance |-> 0, accept |-> 0]

AdvancesDone == SumSeq([p \in 1..Len(history) |-> history[p].advance])

AcceptsDone == SumSeq([p \in 1..Len(history) |-> history[p].accept])

TypeOK ==
  /\ hashseed \in Nat
  /\ \A i \in 1..Len(suppliers) :
       /\ suppliers[i].session_id \in 1..Len(sessions)
       /\ suppliers[i].status \in {"pending", "negotiating", "completed"}
  /\ \A i \in 1..Len(messages) :
       /\ messages[i].supplier_id \in 1..Len(suppliers)
       /\ messages[i].sender \in {"buyer", "supplier"}
  /\ Len(history) = Len(suppliers)
  /\ created \subseteq 1..Len(sessions)

\* No pure-function call is under evaluation.
NoCall == [fn |-> "none", args |-> <<>>, result |-> NULL, returned |-> FALSE]

InitWith(lims) ==
  /\ sessions = <<>>
  /\ suppliers = <<>>
  /\ messages = <<>>
  /\ req = [w \in Workers |-> Idle]
  /\ hashseed \in HashSeeds
  /\ history = <<>>
  /\ limits \in lims
  /\ call = NoCall
  /\ created = {}

Init == InitWith(Limits)

SeqInit == InitWith(SeqLimits)

----------------------------------------------------------------------------
(* create_negotiation *)

\* Lines 297-315: the extraction call, then the session row is committed.
\* The request remembers how the extraction ended (extraction).
\* The completion call is outside the try of extract_requirements, so its
\* failure ends the request before anything is stored.  A reply that parses
\* to something other than an object fails at requirements.get (line 318),
\* after the session was committed.
CreateStart(w, tp, n, ex) ==
  /\ CanStart(w)
  /\ Len(sessions) < limits.sessions
  /\ Len(suppliers) + NamesInFlight + Len(SupplierNames(ex.suggested, n)) <= limits.suppliers
  /\ UNCHANGED <<suppliers, messages, hashseed, history, limits, call, created>>
  /\ IF ex.kind = "error"
     THEN /\ req' = [req EXCEPT ![w] =
               [Response("create", 0, 0, 500) EXCEPT !.extraction = ex.kind]]
          /\ UNCHANGED sessions
     ELSE /\ sessions' = Append(sessions, NewSession(tp))
          /\ IF ex.kind = "nondict"
             THEN req' = [req EXCEPT ![w] =
                       [Response("create", 0, 0, 500) EXCEPT !.extraction = ex.kind]]
             ELSE req' = [req EXCEPT ![w] =
                       [Idle EXCEPT !.pc = "create_loop", !.op = "create",
                                    !.session_id = Len(sessions) + 1,
                                    !.num_suppliers = n,
                                    !.suggested = ex.suggested,
                                    !.names = SupplierNames(ex.suggested, n),
                                    !.extraction = ex.kind]]

FlushPendingLost(msgs, pending) == msgs

\* The buyer message added at line 346 for supplier `pending`, written by the
\* next commit of the request.
FlushPending(msgs, pending) ==
  IF pending # 0 THEN Append(msgs, NewMessage(pending, "buyer", NULL)) ELSE msgs

\* Lines 324-331: the next supplier row is added and committed (the commit
\* also writes the previous supplier's initial message); then the initial
\* request for this supplier is being generated.
CreateSupplier(w) ==
  /\ req[w].pc = "create_loop"
  /\ req[w].names # <<>>
  /\ messages' = FlushPending(messages, req[w].pending)
  /\ suppliers' = Append(suppliers, NewSupplier(req[w].session_id, Head(req[w].names)))
  /\ history' = Append(history, NoHistory)
  /\ req' = [req EXCEPT ![w].names = Tail(@), ![w].pending = Len(suppliers) + 1]
  /\ UNCHANGED <<sessions, hashseed, limits, call, created>>

\* Line 348 and the response: the last message is committed.
CreateFinish(w) ==
  /\ req[w].pc = "create_loop"
  /\ req[w].names = <<>>
  /\ messages' = FlushPending(messages, req[w].pending)
  /\ req' = [req EXCEPT ![w] = Response("create", req[w].session_id, 0, 200)]
  /\ created' = created \cup {req[w].session_id}
  /\ UNCHANGED <<sessions, suppliers, hashseed, history, limits, call>>

\* generate_initial_request (line 334) raises: the request ends, the message
\* of the supplier just committed is never stored.
CreateGenFail(w) ==
  /\ req[w].pc = "create_loop"
  /\ req[w].pending # 0
  /\ req' = [req EXCEPT ![w] = Response("create", 0, 0, 500)]
  /\ UNCHANGED <<db, hashseed, history, limits, call, created>>

----------------------------------------------------------------------------
(* respond_to_supplier ("advance") *)

\* Round number handed to generate_supplier_response (lines 419, 431).
RoundNumber(sup, count) == IF count = 0 THEN 0 ELSE sup.negotiation_round

\* Lines 423-424.
FirstResponse(sup, price) ==
  [sup EXCEPT !.initial_price = price, !.status = "negotiating"]

\* Line 440 / 463: extract_price_from_message(response) or price
PriceMentioned(extracted, price) == PyOr(extracted, price)

HasNextRoundOffByOne(sup) == sup.negotiation_round < FinalRound - 1

\* Line 445.
HasNextRound(sup) == sup.negotiation_round < FinalRound

CounterRoundForgotten(sup) == sup

\* Line 446.
CounterRound(sup) == [sup EXCEPT !.negotiation_round = @ + 1]

FinalRoundCompletes(sup, pm) ==
  [sup EXCEPT !.final_price = pm, !.status = "completed"]

\* Line 463.
FinalRoundUpdate(sup, pm) == [sup EXCEPT !.final_price = pm]

\* The supplier object as respond_to_supplier leaves it before the commit.
RespondObject(sup, count, price, extracted) ==
  LET o1 == IF count = 0 THEN FirstResponse(sup, price) ELSE sup
  IN IF HasNextRound(o1) THEN CounterRound(o1)
     ELSE FinalRoundUpdate(o1, PriceMentioned(extracted, price))

RespondMessagesBuyerFirst(supplier_id, sup, pm) ==
  IF sup.negotiation_round < FinalRound
  THEN <<NewMessage(supplier_id, "buyer", NULL), NewMessage(supplier_id, "supplier", pm)>>
  ELSE <<NewMessage(supplier_id, "supplier", pm)>>

\* The messages the request adds (lines 436-442, 455-460), in order.
RespondMessages(supplier_id, sup, pm) ==
  IF HasNextRound(sup)
  THEN <<NewMessage(supplier_id, "supplier", pm), NewMessage(supplier_id, "buyer", NULL)>>
  ELSE <<NewMessage(supplier_id, "supplier", pm)>>

FlushIncrement(row, loaded, obj) ==
  [row EXCEPT
     !.initial_price = IF obj.initial_price # loaded.initial_price
                       THEN obj.initial_price ELSE @,
     !.final_price = IF obj.final_price # loaded.final_price
                     THEN obj.final_price ELSE @,
     !.status = IF obj.status # loaded.status THEN obj.status ELSE @,
     !.negotiation_round = @ + (obj.negotiation_round - loaded.negotiation_round)]

\* The UPDATE a commit emits: only the columns whose value differs from what
\* the request loaded are written; the others keep the stored value.
Flush(row, loaded, obj) ==
  [row EXCEPT
     !.initial_price = IF obj.initial_price # loaded.initial_price
                       THEN obj.initial_price ELSE @,
     !.final_price = IF obj.final_price # loaded.final_price
                     THEN obj.final_price ELSE @,
     !.status = IF obj.status # loaded.status THEN obj.status ELSE @,
     !.negotiation_round = IF obj.negotiation_round # loaded.negotiation_round
                           THEN obj.negotiation_round ELSE @]

\* Lines 404-405: both rows are fetched, or the request ends with 404.
AdvanceLoad(w, session_id, supplier_id) ==
  /\ CanStart(w)
  /\ AdvancesDone + InFlight("advance") < limits.advances
  /\ UNCHANGED <<db, hashseed, history, limits, call, created>>
  /\ IF session_id \in 1..Len(sessions) /\ supplier_id \in 1..Len(suppliers)
     THEN /\ req' = [req EXCEPT ![w] =
               [Idle EXCEPT !.pc = "adv_count", !.op = "advance",
                            !.session_id = session_id,
                            !.supplier_id = supplier_id,
                            !.target_price = sessions[session_id].target_price,
                            !.sup = suppliers[supplier_id]]]
     ELSE req' = [req EXCEPT ![w] = Response("advance", session_id, supplier_id, 404)]

\* Lines 409-411: the count of supplier-sent messages.
AdvanceCount(w) ==
  /\ req[w].pc = "adv_count"
  /\ req' = [req EXCEPT ![w].pc = "adv_gen",
                        ![w].count = Len(SupplierMessages(messages, req[w].supplier_id))]
  /\ UNCHANGED <<db, hashseed, history, limits, call, created>>

\* Lines 413-466 with every generation call answered: one commit.
AdvanceCommit(w, extracted) ==
  /\ req[w].pc = "adv_gen"
  /\ LET r == req[w]
         price == SuggestedPrice(r.sup.company_name, RoundNumber(r.sup, r.count),
                                 r.target_price, hashseed)
         pm == PriceMentioned(extracted, price)
         obj == RespondObject(r.sup, r.count, price, extracted)
     IN /\ suppliers' = [suppliers EXCEPT ![r.supplier_id] = Flush(@, r.sup, obj)]
        /\ messages' = messages \o RespondMessages(r.supplier_id, r.sup, pm)
        /\ history' = [history EXCEPT ![r.supplier_id].advance = @ + 1]
  /\ req' = [req EXCEPT ![w] =
               Response("advance", req[w].session_id, req[w].supplier_id, 200)]
  /\ UNCHANGED <<sessions, hashseed, limits, call, created>>

FailedAdvanceKeepsMessage(msgs, r) ==
  Append(msgs, NewMessage(r.supplier_id, "supplier", NULL))

\* What a request that raised leaves in the messages table: the objects it
\* had added or changed (lines 423-424, 442, 446) were never flushed, and
\* its session is rolled back when the request is torn down.
AfterFailedAdvance(msgs, r) == msgs

\* A generation call raises: the supplier-response call (lines 415, 427) or
\* the buyer-counter call (line 449).  The exception leaves the handler.
AdvanceFail(w) ==
  /\ req[w].pc = "adv_gen"
  /\ messages' = AfterFailedAdvance(messages, req[w])
  /\ req' = [req EXCEPT ![w] =
               Response("advance", req[w].session_id, req[w].supplier_id, 500)]
  /\ UNCHANGED <<sessions, suppliers, hashseed, history, limits, call, created>>

----------------------------------------------------------------------------
(* accept_quote *)

\* Line 472: the supplier row is fetched (the session id is not looked at).
AcceptLoad(w, session_id, supplier_id) ==
  /\ CanStart(w)
  /\ AcceptsDone + InFlight("accept") < limits.accepts
  /\ UNCHANGED <<db, hashseed, history, limits, call, created>>
  /\ IF supplier_id \in 1..Len(suppliers)
     THEN /\ req' = [req EXCEPT ![w] =
               [Idle EXCEPT !.pc = "acc_commit", !.op = "accept",
                            !.session_id = session_id,
                            !.supplier_id = supplier_id,
                            !.sup = suppliers[supplier_id]]]
     ELSE req' = [req EXCEPT ![w] = Response("accept", session_id, supplier_id, 404)]

AcceptObjectResetsRound(sup, smsgs) ==
  [sup EXCEPT !.status = "completed", !.negotiation_round = 0]

\* Lines 473-481 on the loaded object; smsgs are the supplier-sent messages
\* the query of line 476 finds, oldest first.
AcceptObject(sup, smsgs) ==
  LET o1 == [sup EXCEPT !.status = "completed"]
  IN IF smsgs # <<>> /\ Truthy(Last(smsgs).price_mentioned)
     THEN [o1 EXCEPT !.final_price = Last(smsgs).price_mentioned]
     ELSE o1

\* Lines 473-484: status, the last supplier message, final price, commit.
AcceptCommit(w) ==
  /\ req[w].pc = "acc_commit"
  /\ LET r == req[w]
         obj == AcceptObject(r.sup, SupplierMessages(messages, r.supplier_id))
     IN /\ suppliers' = [suppliers EXCEPT ![r.supplier_id] = Flush(@, r.sup, obj)]
        /\ history' = [history EXCEPT ![r.supplier_id].accept = @ + 1]
  /\ req' = [req EXCEPT ![w] =
               Response("accept", req[w].session_id, req[w].supplier_id, 200)]
  /\ UNCHANGED <<sessions, messages, hashseed, limits, call, created>>

----------------------------------------------------------------------------
(* get_negotiation_status *)

\* Rounding of num / den to the nearest whole number (den > 0), as the
\* format specs .2f and .1f round.
RoundDiv(num, den) == (2 * num + den) \div (2 * den)

NoMetrics ==
  [present |-> FALSE, initial_price |-> 0, final_price |-> 0,
   savings |-> 0, savings_percent |-> 0]

SavingsReversed(sup) == sup.final_price - sup.initial_price

\* Line 394: s.initial_price - s.final_price
Savings(sup) == sup.initial_price - sup.final_price

\* Line 396: the condition under which the metrics are computed.
HasMetrics(sup) ==
  /\ sup.status = "completed"
  /\ Truthy(sup.initial_price)
  /\ Truthy(sup.final_price)

\* Lines 391-396.  Prices and savings in whole dollars; savings_percent in
\* tenths of a percent (one decimal).
Metrics(sup) ==
  IF HasMetrics(sup)
  THEN [present |-> TRUE,
        initial_price |-> sup.initial_price,
        final_price |-> sup.final_price,
        savings |-> Savings(sup),
        savings_percent |-> RoundDiv(Savings(sup) * 1000, sup.initial_price)]
  ELSE NoMetrics

\* Lines 380-397: one entry per supplier of the session (the messages of
\* the entry are left out).
StatusBody(session_id) ==
  LET ids == SuppliersOf(suppliers, session_id)
  IN [kind |-> "status", raw_output |-> <<>>,
      suppliers |-> [i \in 1..Len(ids) |->
                       [id |-> ids[i],
                        status |-> suppliers[ids[i]].status,
                        negotiation_round |-> suppliers[ids[i]].negotiation_round,
                        metrics |-> Metrics(suppliers[ids[i]])]]]

\* Lines 373-398: the session is fetched or the request ends with 404; the
\* rows of its suppliers are read and reported.
StatusRead(w, session_id) ==
  /\ CanStart(w)
  /\ req' = [req EXCEPT ![w] =
       IF session_id \in 1..Len(sessions)
       THEN [Response("status", session_id, 0, 200) EXCEPT
               !.body = StatusBody(session_id)]
       ELSE Response("status", session_id, 0, 404)]
  /\ UNCHANGED <<db, hashseed, history, limits, call, created>>

----------------------------------------------------------------------------
(* The process *)

\* The response is sent and the thread goes back to the pool.
Reply(w) ==
  /\ req[w].pc = "done"
  /\ req' = [req EXCEPT ![w] = Idle]
  /\ UNCHANGED <<db, hashseed, history, limits, call, created>>

SessionIds == 1..(Len(sessions) + 1)

SupplierIds == 1..(Len(suppliers) + 1)

DoCreateStart ==
  \E w \in Workers, tp \in TargetPrices, n \in NumSuppliersInputs, ex \in Extractions :
    CreateStart(w, tp, n, ex)

DoCreateSupplier == \E w \in Workers : CreateSupplier(w)

DoCreateFinish == \E w \in Workers : CreateFinish(w)

DoCreateGenFail == \E w \in Workers : CreateGenFail(w)

DoAdvanceLoad ==
  \E w \in Workers, s \in SessionIds, p \in SupplierIds : AdvanceLoad(w, s, p)

DoAdvanceCount == \E w \in Workers : AdvanceCount(w)

DoAdvanceCommit == \E w \in Workers, e \in ExtractedPrices : AdvanceCommit(w, e)

DoAdvanceFail == \E w \in Workers : AdvanceFail(w)

DoAcceptLoad ==
  \E w \in Workers, s \in SessionIds, p \in SupplierIds : AcceptLoad(w, s, p)

DoAcceptCommit == \E w \in Workers : AcceptCommit(w)

DoStatusRead == \E w \in Workers, s \in SessionIds : StatusRead(w, s)

DoReply == \E w \in Workers : Reply(w)

Next ==
  \/ DoCreateStart
  \/ DoCreateSupplier
  \/ DoCreateFinish
  \/ DoCreateGenFail
  \/ DoAdvanceLoad
  \/ DoAdvanceCount
  \/ DoAdvanceCommit
  \/ DoAdvanceFail
  \/ DoAcceptLoad
  \/ DoAcceptCommit
  \/ DoStatusRead
  \/ DoReply

Spec == Init /\ [][Next]_vars

\* One request at a time: a request runs to its response before the next
\* one is taken.
OneAtATime == Cardinality({w \in Workers : ~IsIdle(w)}) <= 1

SeqNext ==
  \/ DoCreateStart /\ OneAtATime'
  \/ DoCreateSupplier /\ OneAtATime'
  \/ DoCreateFinish /\ OneAtATime'
  \/ DoCreateGenFail /\ OneAtATime'
  \/ DoAdvanceLoad /\ OneAtATime'
  \/ DoAdvanceCount /\ OneAtATime'
  \/ DoAdvanceCommit /\ OneAtATime'
  \/ DoAdvanceFail /\ OneAtATime'
  \/ DoAcceptLoad /\ OneAtATime'
  \/ DoAcceptCommit /\ OneAtATime'
  \/ DoStatusRead /\ OneAtATime'
  \/ DoReply /\ OneAtATime'

SeqSpec == SeqInit /\ [][SeqNext]_vars

----------------------------------------------------------------------------
(* analyze_solicitations (src/app.py) *)

\* URLs in one request, at most.
MaxUrls == 3
\* JSON-string encodings wrapped around a reply, at most.
MaxLayers == 2

\* data.get("urls"): absent, something that is no list, or a list of URLs.
\* A URL is named by its position in the list.
UrlsInputs ==
  {[kind |-> "missing", list |-> <<>>], [kind |-> "notalist", list |-> <<>>]}
  \cup {[kind |-> "list", list |-> [i \in 1..n |-> i]] : n \in 0..MaxUrls}

\* `not urls or not isinstance(urls, list)` (line 182).
BadUrls(urls) == urls.kind # "list" \/ urls.list = <<>>

\* What happens to one URL in download_and_upload_files: the download fails
\* (lines 153-154), the upload fails (line 161), both succeed, or both
\* succeed and removing the temporary file fails after the append (line 171).
UrlOutcomes == {"download_failed", "upload_failed", "ok", "unlink_failed"}

\* {"type": "input_file", "file_id": upload.id}: the upload of URL i.
FileInput(i) == [type |-> "input_file", file_id |-> i]

SYSTEM_PROMPT == [type |-> "input_text", file_id |-> NULL]

FetchOneKeepsFailed(file_inputs, i, outcome) == Append(file_inputs, FileInput(i))

\* One turn of the loop of lines 151-174: the append of line 166 is reached
\* when neither requests.get, raise_for_status nor files.create raised.
FetchOne(file_inputs, i, outcome) ==
  IF outcome \in {"ok", "unlink_failed"}
  THEN Append(file_inputs, FileInput(i))
  ELSE file_inputs

\* A reply text of the completion service: a document (a JSON object, the
\* JSON null, or prose) wrapped in `layers` JSON-string encodings (quotes
\* around it, its own quotes and backslashes escaped); esc: the document's
\* strings hold backslash escapes (\n, \"); bad: the text holds a truncated
\* escape (a backslash at its end, \x or \u without its digits).
RawOutputs ==
  [layers : 0..MaxLayers, inner : {"object", "null", "prose"},
   esc : BOOLEAN, bad : BOOLEAN]

Failure == [failed |-> TRUE]

\* bytes(raw_output, "utf-8").decode("unicode_escape") (line 136): raises on
\* a truncated escape; undoes one level of escaping; in a text that is not
\* wrapped it replaces the escapes inside the document's strings by the
\* characters they stand for, which leaves no JSON.  quoted: the text starts
\* and ends with a double quote.
Unescape(raw) ==
  IF raw.bad THEN Failure
  ELSE IF raw.layers > 0
       THEN [failed |-> FALSE, quoted |-> TRUE, layers |-> raw.layers - 1,
             inner |-> raw.inner]
       ELSE [failed |-> FALSE, quoted |-> FALSE, layers |-> 0,
             inner |-> IF raw.esc /\ raw.inner # "prose" THEN "broken" ELSE raw.inner]

\* Lines 139-140.
StripQuotes(text) == [text EXCEPT !.quoted = FALSE]

\* json.loads (line 143): a text still wrapped in an encoding is a JSON
\* string; an object gives a dict; null gives None; anything else raises.
JsonLoads(text) ==
  IF text.quoted THEN Failure
  ELSE IF text.layers > 0 THEN [failed |-> FALSE, value |-> "str"]
  ELSE IF text.inner = "object" THEN [failed |-> FALSE, value |-> "dict"]
  ELSE IF text.inner = "null" THEN [failed |-> FALSE, value |-> "None"]
  ELSE Failure

\* parse_raw_output (lines 133-147): every exception ends in `return None`.
parse_raw_output(raw) ==
  LET cleaned == Unescape(raw)
  IN IF cleaned.failed THEN "None"
     ELSE LET result == JsonLoads(StripQuotes(cleaned))
          IN IF result.failed THEN "None" ELSE result.value

\* The view's return value turned into a response: a dict is sent as JSON,
\* a str as text; None is no response, which the framework answers with its
\* own internal-server-error page.
ViewResponse(parsed) ==
  IF parsed = "None"
  THEN [code |-> 500, body |-> [kind |-> "internal_error", raw_output |-> <<>>]]
  ELSE [code |-> 200, body |-> [kind |-> parsed, raw_output |-> <<>>]]

AnalyzeResponse(code, body) ==
  [Response("analyze", 0, 0, code) EXCEPT !.body = body]

\* The fields of an analyze request next to those of every request.
AnalyzeRequest(urls) ==
  [urls |-> urls, outcomes |-> <<>>, file_inputs |-> <<>>,
   submitted |-> <<>>, raw_output |-> NULL]
  @@ [Idle EXCEPT !.pc = "an_files", !.op = "analyze"]

\* Lines 179-183.
AnalyzeStart(w, urls) ==
  /\ CanStart(w)
  /\ req' = [req EXCEPT ![w] =
       IF BadUrls(urls)
       THEN AnalyzeResponse(400, [kind |-> "error", raw_output |-> <<>>])
       ELSE AnalyzeRequest(urls.list)]
  /\ UNCHANGED <<db, hashseed, history, limits, call, created>>

\* Lines 151-174 for the next URL.
AnalyzeFetch(w, outcome) ==
  /\ req[w].pc = "an_files"
  /\ Len(req[w].outcomes) < Len(req[w].urls)
  /\ LET i == Len(req[w].outcomes) + 1
     IN req' = [req EXCEPT ![w].outcomes = Append(@, outcome),
                           ![w].file_inputs = FetchOne(@, req[w].urls[i], outcome)]
  /\ UNCHANGED <<db, hashseed, history, limits, call, created>>

\* Lines 187-202: without a file the request ends; otherwise the files and
\* the prompt are sent to the completion service.
AnalyzeSubmit(w) ==
  /\ req[w].pc = "an_files"
  /\ Len(req[w].outcomes) = Len(req[w].urls)
  /\ req' = [req EXCEPT ![w] =
       IF req[w].file_inputs = <<>>
       THEN AnalyzeResponse(500, [kind |-> "error", raw_output |-> <<>>])
       ELSE [@ EXCEPT !.pc = "an_wait",
                      !.submitted = req[w].file_inputs \o <<SYSTEM_PROMPT>>]]
  /\ UNCHANGED <<db, hashseed, history, limits, call, created>>

\* Line 204: the service has answered.
AnalyzeOutput(w, raw) ==
  /\ req[w].pc = "an_wait"
  /\ req' = [req EXCEPT ![w].pc = "an_parse", ![w].raw_output = raw]
  /\ UNCHANGED <<db, hashseed, history, limits, call, created>>

\* Lines 194-202 raise: the handler of lines 218-219.
AnalyzeServiceError(w) ==
  /\ req[w].pc = "an_wait"
  /\ req' = [req EXCEPT ![w] =
       AnalyzeResponse(500, [kind |-> "error", raw_output |-> <<>>])]
  /\ UNCHANGED <<db, hashseed, history, limits, call, created>>

\* Lines 208-210: parse_raw_output does not raise, so the handler of lines
\* 211-216 is never entered.
AnalyzeReturn(w) ==
  /\ req[w].pc = "an_parse"
  /\ LET r == ViewResponse(parse_raw_output(req[w].raw_output))
     IN req' = [req EXCEPT ![w] = AnalyzeResponse(r.code, r.body)]
  /\ UNCHANGED <<db, hashseed, history, limits, call, created>>

DoAnalyzeStart == \E w \in Workers, urls \in UrlsInputs : AnalyzeStart(w, urls)

DoAnalyzeFetch == \E w \in Workers, o \in UrlOutcomes : AnalyzeFetch(w, o)

DoAnalyzeSubmit == \E w \in Workers : AnalyzeSubmit(w)

DoAnalyzeOutput == \E w \in Workers, raw \in RawOutputs : AnalyzeOutput(w, raw)

DoAnalyzeServiceError == \E w \in Workers : AnalyzeServiceError(w)

DoAnalyzeReturn == \E w \in Workers : AnalyzeReturn(w)

\* The analysis shares no state with the negotiation and none between its
\* requests: its requests are followed one at a time, on an empty database.
AnalyzeInit == InitWith({Limit(0, 0, 0, 0)})

AnalyzeNext ==
  \/ DoAnalyzeStart /\ OneAtATime'
  \/ DoAnalyzeFetch /\ OneAtATime'
  \/ DoAnalyzeSubmit /\ OneAtATime'
  \/ DoAnalyzeOutput /\ OneAtATime'
  \/ DoAnalyzeServiceError /\ OneAtATime'
  \/ DoAnalyzeReturn /\ OneAtATime'
  \/ DoReply /\ OneAtATime'

AnalyzeSpec == AnalyzeInit /\ [][AnalyzeNext]_vars

----------------------------------------------------------------------------
(* extract_price_from_message *)

\* Tokens in a message text, at most.
MaxTokens == 4

\* `if val > 100` (line 285).
PriceFloor == 100

\* A text is a sequence of tokens.  A token is a word, an amount-shaped
\* lexeme with a numeric value ([\d,]+\.?\d* holding a digit), or a lexeme of
\* commas alone, which [\d,]+ matches as well (the comma after a word) and
\* float() refuses.  Between two tokens stands what the patterns allow
\* between a label and its number: white space, a colon, a dollar sign.
Word(w) == [kind |-> "word", word |-> w, value |-> 0]

Amount(v) == [kind |-> "amount", word |-> "", value |-> v]

Commas == [kind |-> "commas", word |-> ",", value |-> 0]

Words == {"total", "Total", "grand", "cost", "price", "quoted", "fee"}

Amounts == {5, 100, 250, 1200, 1500}

Tokens == {Word(w) : w \in Words} \cup {Amount(v) : v \in Amounts} \cup {Commas}

Texts == UNION {[1..n -> Tokens] : n \in 0..MaxTokens}

\* content.lower() (line 267).
LowerWord(w) == IF w = "Total" THEN "total" ELSE w

Lower(content) ==
  [i \in 1..Len(content) |->
     IF content[i].kind = "word"
     THEN [content[i] EXCEPT !.word = LowerWord(@)]
     ELSE content[i]]

\* The five patterns of lines 259-265, in their order: the token classes a
\* match runs through, and the place of the captured group among them.
patterns ==
  <<[classes |-> <<"total", "num">>, group |-> 2],
    [classes |-> <<"total", "cost|price", "num">>, group |-> 3],
    [classes |-> <<"grand", "total", "num">>, group |-> 3],
    [classes |-> <<"num", "total">>, group |-> 1],
    [classes |-> <<"quoted", "price", "num">>, group |-> 3]>>

InClass(tok, class) ==
  IF class = "num" THEN tok.kind \in {"amount", "commas"}
  ELSE IF class = "cost|price" THEN tok.kind = "word" /\ tok.word \in {"cost", "price"}
  ELSE tok.kind = "word" /\ tok.word = class

MatchesAt(pattern, toks, i) ==
  /\ i + Len(pattern.classes) - 1 <= Len(toks)
  /\ \A j \in 1..Len(pattern.classes) : InClass(toks[i + j - 1], pattern.classes[j])

\* re.findall(pattern, text): the captured groups of the matches, left to
\* right, a match starting where the one before it ended.
RECURSIVE FindAllFrom(_, _, _)
FindAllFrom(pattern, toks, i) ==
  IF i > Len(toks) THEN <<>>
  ELSE IF MatchesAt(pattern, toks, i)
       THEN <<toks[i + pattern.group - 1]>>
            \o FindAllFrom(pattern, toks, i + Len(pattern.classes))
       ELSE FindAllFrom(pattern, toks, i + 1)

FindAll(pattern, toks) == FindAllFrom(pattern, toks, 1)

\* float(s.replace(',', '')): raises on a lexeme without a digit.
IsFloat(tok) == tok.kind = "amount"

\* Lines 269-277: the first pattern, in order, whose last match is a number
\* decides; a pattern whose last match is no number is passed over.
RECURSIVE LabelledPrice(_, _)
LabelledPrice(content_lower, k) ==
  IF k > Len(patterns) THEN [found |-> FALSE, price |-> NULL]
  ELSE LET matches == FindAll(patterns[k], content_lower)
       IN IF matches # <<>> /\ IsFloat(Last(matches))
          THEN [found |-> TRUE, price |-> Last(matches).value]
          ELSE LabelledPrice(content_lower, k + 1)

PriceLikeInclusive(val) == val >= PriceFloor

\* Line 285.
PriceLike(val) == val > PriceFloor

RECURSIVE MaxOf(_)
MaxOf(S) ==
  LET x == CHOOSE y \in S : TRUE
  IN IF S = {x} THEN x ELSE Max(x, MaxOf(S \ {x}))

\* Lines 280-290: every amount-shaped lexeme of the text as given; those
\* that are numbers above the floor are kept; the largest, or None.
FallbackPrice(content) ==
  LET amounts == {content[i].value : i \in {j \in 1..Len(content) :
                     IsFloat(content[j]) /\ PriceLike(content[j].value)}}
  IN IF amounts # {} THEN MaxOf(amounts) ELSE NULL

extract_price_from_message(content) ==
  LET labelled == LabelledPrice(Lower(content), 1)
  IN IF labelled.found THEN labelled.price ELSE FallbackPrice(content)

\* The extractor on its own: any text is handed to it, and it returns.
Calling(fn, args) == [fn |-> fn, args |-> args, result |-> NULL, returned |-> FALSE]

ExtractInit == InitWith({Limit(0, 0, 0, 0)})

ExtractPriceCall ==
  /\ call.fn = "none"
  /\ \E content \in Texts :
       call' = Calling("extract_price_from_message", <<content>>)
  /\ UNCHANGED <<db, req, hashseed, history, limits, created>>

ExtractPriceReturn ==
  /\ call.fn = "extract_price_from_message"
  /\ ~call.returned
  /\ call' = [call EXCEPT !.result = extract_price_from_message(call.args[1]),
                          !.returned = TRUE]
  /\ UNCHANGED <<db, req, hashseed, history, limits, created>>

ExtractNext ==
  \/ ExtractPriceCall
  \/ ExtractPriceReturn

ExtractSpec == ExtractInit /\ [][ExtractNext]_vars

----------------------------------------------------------------------------
(* The pricing strategy of generate_supplier_response on its own *)

\* Seeds a restarted process may draw: 0..MaxRunSeed.
MaxRunSeed == 1

RunSeeds == 0..MaxRunSeed

\* The company names create_negotiation can store.
CompanyNames ==
  {AiName(j) : j \in 1..MaxSuggested}
  \cup {DefaultName(j) : j \in 1..5}
  \cup {Placeholder(i) : i \in 1..MaxSuppliers}

\* Lines 167-174: the multiplier (in percent) and the suggested price the
\* running process computes.
PricingStrategy(company_name, round_num, target_price) ==
  [price_multiplier |-> MultiplierPercent(company_name, round_num, hashseed),
   suggested_price |-> SuggestedPrice(company_name, round_num, target_price, hashseed)]

PricingCall(company_name, round_num, target_price) ==
  /\ call' = [fn |-> "generate_supplier_response",
              args |-> <<company_name, round_num, target_price>>,
              result |-> PricingStrategy(company_name, round_num, target_price),
              returned |-> TRUE]
  /\ UNCHANGED <<db, req, hashseed, history, limits, created>>

\* The server process is started again: the database file stays, the
\* interpreter draws a new seed for the hash of strings.
Restart ==
  /\ \E seed \in RunSeeds : hashseed' = seed
  /\ UNCHANGED <<db, req, history, limits, call, created>>

PricingInit == InitWith({Limit(0, 0, 0, 0)})

DoPricingCall ==
  \E name \in CompanyNames, round_num \in 0..FinalRound, tp \in TargetPrices :
    PricingCall(name, round_num, tp)

PricingNext ==
  \/ DoPricingCall
  \/ Restart

PricingSpec == PricingInit /\ [][PricingNext]_vars

----------------------------------------------------------------------------
(* Properties *)

SupplierIdsStored == 1..Len(suppliers)

NumSupplierMessages(p) == Len(SupplierMessages(messages, p))

\* Steps of the requests, as seen from outside.
AdvanceCommitted(w) ==
  req[w].pc = "adv_gen" /\ req'[w].pc = "done" /\ req'[w].code = 200

AcceptCommitted(w) == req[w].pc = "acc_commit" /\ req'[w].pc = "done"

CreateFinished(w) ==
  req[w].pc = "create_loop" /\ req'[w].pc = "done" /\ req'[w].code = 200

OnlyAdvances(p, n) == history[p] = [advance |-> n, accept |-> 0]

\* C1 as stated: a supplier on which exactly two advance calls and nothing
\* else have succeeded has negotiation_round 2 and a final_price.
C1_TwoAdvancesSetFinalPrice ==
  \A p \in SupplierIdsStored :
    OnlyAdvances(p, 2) =>
      /\ suppliers[p].negotiation_round = 2
      /\ suppliers[p].final_price # NULL

\* C1 amended: with requests served one at a time, after exactly two
\* successful advance calls and nothing else the supplier is at round 2 and
\* its final_price is still unset; after the third it is at round 2 and its
\* final_price is set.
C1_TwoAdvancesReachRoundTwo ==
  \A p \in SupplierIdsStored :
    /\ OnlyAdvances(p, 2) =>
         /\ suppliers[p].negotiation_round = 2
         /\ suppliers[p].final_price = NULL
    /\ OnlyAdvances(p, 3) =>
         /\ suppliers[p].negotiation_round = 2
         /\ suppliers[p].final_price # NULL

C1_Witness ==
  \E p \in SupplierIdsStored :
    /\ OnlyAdvances(p, 2)
    /\ suppliers[p].negotiation_round = 2
    /\ suppliers[p].final_price = NULL

RoundInRange == \A p \in SupplierIdsStored : suppliers[p].negotiation_round \in 0..2

\* C2 as stated: negotiation_round is always in 0..2, and under any
\* interleaving every advance call changes it by 0 or by exactly +1.
C2_RoundStepsByOne ==
  /\ []RoundInRange
  /\ [][\A p \in SupplierIdsStored : \A w \in Workers :
          (AdvanceCommitted(w) /\ req[w].supplier_id = p) =>
            suppliers'[p].negotiation_round - suppliers[p].negotiation_round \in {0, 1}]_vars

LastSupplierPrice(p) == Last(SupplierMessages(messages, p)).price_mentioned

\* C3 as stated: accept always leaves the status completed and, when the
\* most recent supplier-sent message carries a price, final_price equal to
\* that price.
C3_AcceptCompletesAndAdoptsPrice ==
  [][\A w \in Workers :
       AcceptCommitted(w) =>
         LET p == req[w].supplier_id
         IN /\ suppliers'[p].status = "completed"
            /\ (NumSupplierMessages(p) > 0 /\ LastSupplierPrice(p) # NULL) =>
                 suppliers'[p].final_price = LastSupplierPrice(p)]_vars

\* C4: a supplier's status becomes completed only in a step of accept on
\* that supplier; no step of advance makes it completed, the step that runs
\* at round 2 and sets final_price included.
C4_OnlyAcceptCompletes ==
  [][\A p \in SupplierIdsStored :
       (suppliers[p].status # "completed" /\ suppliers'[p].status = "completed") =>
         \E w \in Workers : AcceptCommitted(w) /\ req[w].supplier_id = p]_vars

C4_Witness ==
  \E p \in SupplierIdsStored :
    /\ history[p].accept = 0
    /\ history[p].advance >= 3
    /\ suppliers[p].negotiation_round = 2
    /\ suppliers[p].final_price # NULL
    /\ suppliers[p].status = "negotiating"

\* C5 as stated: once a supplier's status is completed it is completed in
\* every later state.
C5_CompletedIsFinal ==
  [][\A p \in SupplierIdsStored :
       suppliers[p].status = "completed" => suppliers'[p].status = "completed"]_vars

\* C6 as stated: over advance calls on a supplier that no accept has
\* touched, final_price is assigned at most once: once it is set, no later
\* advance changes it.
C6_FinalPriceSetOnce ==
  [][\A w \in Workers :
       LET p == req[w].supplier_id
       IN (AdvanceCommitted(w) /\ history[p].accept = 0
            /\ suppliers[p].final_price # NULL) =>
            suppliers'[p].final_price = suppliers[p].final_price]_vars

\* C7 as stated: a negotiating supplier has at least one supplier-sent
\* message and negotiation_round < 2.
C7_NegotiatingBelowRoundTwo ==
  \A p \in SupplierIdsStored :
    suppliers[p].status = "negotiating" =>
      /\ NumSupplierMessages(p) >= 1
      /\ suppliers[p].negotiation_round < 2

\* C7 amended: a negotiating supplier has at least one supplier-sent message
\* and negotiation_round 1 or 2 (it stays negotiating at round 2 until an
\* accept).
C7_NegotiatingHasQuote ==
  \A p \in SupplierIdsStored :
    suppliers[p].status = "negotiating" =>
      /\ NumSupplierMessages(p) >= 1
      /\ suppliers[p].negotiation_round \in 1..2

C7_Witness ==
  \E p \in SupplierIdsStored :
    /\ suppliers[p].status = "negotiating"
    /\ suppliers[p].negotiation_round = 2
    /\ NumSupplierMessages(p) >= 2

\* C8: an advance that commits after another advance on the same supplier
\* committed behind its back (it counted fewer supplier-sent messages than
\* are stored now) and that loaded the supplier below round 2 still
\* succeeds: it appends one more supplier-sent message and stores the round
\* it loaded plus one, not the stored round plus one.  Two advances that
\* both loaded round r thus leave two more messages and round r + 1.
C8_OverlappingAdvanceLosesIncrement ==
  [][\A w \in Workers :
       LET p == req[w].supplier_id
       IN (AdvanceCommitted(w) /\ req[w].sup.negotiation_round < 2
            /\ NumSupplierMessages(p) > req[w].count) =>
            /\ suppliers'[p].negotiation_round = req[w].sup.negotiation_round + 1
            /\ Len(SupplierMessages(messages', p)) = NumSupplierMessages(p) + 1]_vars

\* The state C8 names: two advances have succeeded, the round is below 2
\* and there are more supplier-sent messages than rounds.
C8_Witness ==
  \E p \in SupplierIdsStored :
    /\ history[p] = [advance |-> 2, accept |-> 0]
    /\ suppliers[p].negotiation_round = 1
    /\ NumSupplierMessages(p) = 2

FreshSupplier(sups, msgs, p) ==
  /\ sups[p].status = "pending"
  /\ sups[p].negotiation_round = 0
  /\ sups[p].initial_price = NULL
  /\ sups[p].final_price = NULL
  /\ MessagesOf(msgs, p) = <<NewMessage(p, "buyer", NULL)>>

\* C9: in the step in which create-negotiation succeeds, every supplier of
\* the new session (that no advance or accept of another caller has got to
\* meanwhile) is pending at round 0 without prices and has exactly one
\* message, buyer-sent and without a price.
C9_CreateLeavesFreshSuppliers ==
  [][\A w \in Workers :
       CreateFinished(w) =>
         \A p \in 1..Len(suppliers') :
           (suppliers'[p].session_id = req[w].session_id
             /\ history'[p] = NoHistory) =>
             FreshSupplier(suppliers', messages', p)]_vars

C9_Witness ==
  \E w \in Workers :
    /\ req[w].pc = "done" /\ req[w].op = "create" /\ req[w].code = 200
    /\ Len(SuppliersOf(suppliers, req[w].session_id)) = 2
    /\ \A p \in SupplierIdsStored :
         suppliers[p].session_id = req[w].session_id =>
           history[p] = NoHistory /\ FreshSupplier(suppliers, messages, p)

ExpectedName(suggested, n, i) ==
  IF i <= Min(n, Len(suggested)) THEN suggested[i] ELSE Placeholder(i)

\* C10: a create-negotiation that succeeds with numSuppliers = N >= 0 and k
\* suggested names has created exactly N suppliers, in order: the first
\* min(N, k) carry the first suggested names, position i > k carries
\* 'Qualified Contractor #i'.
C10_SupplierNames ==
  [][\A w \in Workers :
       (CreateFinished(w) /\ req[w].num_suppliers >= 0) =>
         LET ids == SuppliersOf(suppliers', req[w].session_id)
             n == req[w].num_suppliers
         IN /\ Len(ids) = n
            /\ \A i \in 1..n :
                 suppliers'[ids[i]].company_name =
                   ExpectedName(req[w].suggested, n, i)]_vars

C10_Witness ==
  \E w \in Workers :
    /\ req[w].pc = "done" /\ req[w].op = "create" /\ req[w].code = 200
    /\ LET ids == SuppliersOf(suppliers, req[w].session_id)
       IN /\ Len(ids) = 2
          /\ suppliers[ids[1]].company_name = AiName(1)
          /\ suppliers[ids[2]].company_name = Placeholder(2)

\* C11 as stated: an advance or accept call that names a session id or a
\* supplier id that is not stored is answered 404, and the step that
\* answers 404 changes no stored session, supplier or message.
C11_UnknownIdsAreNotFound ==
  /\ [](\A w \in Workers :
          (/\ req[w].pc = "done"
           /\ req[w].op \in {"advance", "accept"}
           /\ \/ req[w].session_id \notin 1..Len(sessions)
              \/ req[w].supplier_id \notin 1..Len(suppliers)) =>
            req[w].code = 404)
  /\ [][\A w \in Workers :
          (req[w].pc # "done" /\ req'[w].pc = "done" /\ req'[w].code = 404) =>
            db' = db]_vars

\* C12 as stated: when the requirement extraction of create-negotiation
\* fails (the service call raises, or its reply is no JSON), the request
\* goes on with the default record: it stores the session and heads for the
\* supplier loop with the five default names.
C12_ExtractionFailureFallsBack ==
  [][\A w \in Workers :
       (/\ IsIdle(w)
        /\ req'[w].op = "create"
        /\ req'[w].extraction \in {"error", "unparsable"}) =>
         /\ req'[w].pc = "create_loop"
         /\ req'[w].suggested = DefaultSuggested
         /\ Len(sessions') = Len(sessions) + 1]_vars

\* The reply cannot be parsed: the unescape stage or the JSON stage raises.
ParseFails(raw) ==
  \/ Unescape(raw).failed
  \/ JsonLoads(StripQuotes(Unescape(raw))).failed

\* C13 as stated: when the completion reply of analyze-documents cannot be
\* parsed, at the unescape stage or at the JSON stage, the response is an
\* error response that carries the raw reply text.
C13_ParseFailureCarriesRawText ==
  [][\A w \in Workers :
       (/\ req[w].pc = "an_parse"
        /\ req'[w].pc = "done"
        /\ ParseFails(req[w].raw_output)) =>
         /\ req'[w].code >= 400
         /\ req'[w].body.raw_output = <<req[w].raw_output>>]_vars

UrlSucceeded(outcome) == outcome \in {"ok", "unlink_failed"}

IsFileInput(x) == x.type = "input_file"

\* The file handles of the URLs that were downloaded and uploaded, in the
\* order of the URLs.
RECURSIVE HandlesOfSucceeded(_, _)
HandlesOfSucceeded(urls, outcomes) ==
  IF outcomes = <<>> THEN <<>>
  ELSE (IF UrlSucceeded(Head(outcomes)) THEN <<FileInput(Head(urls))>> ELSE <<>>)
       \o HandlesOfSucceeded(Tail(urls), Tail(outcomes))

\* C14: the files analyze-documents submits to the completion service are
\* exactly the handles of the URLs whose download and upload succeeded, in
\* input order; while URLs remain the request goes on to the next one
\* whatever happened to the last; and when no URL succeeded the request is
\* answered with a failure without the completion service being called.
C14_SubmitsSucceededFiles ==
  [][\A w \in Workers :
       req[w].pc = "an_files" /\ req'[w] # req[w] =>
         LET expected == HandlesOfSucceeded(req[w].urls, req[w].outcomes)
         IN /\ Len(req[w].outcomes) < Len(req[w].urls) =>
                 /\ req'[w].pc = "an_files"
                 /\ Len(req'[w].outcomes) = Len(req[w].outcomes) + 1
            /\ req'[w].pc = "an_wait" =>
                 /\ Len(req[w].outcomes) = Len(req[w].urls)
                 /\ expected # <<>>
                 /\ SelectSeq(req'[w].submitted, IsFileInput) = expected
            /\ (Len(req[w].outcomes) = Len(req[w].urls) /\ expected = <<>>) =>
                 /\ req'[w].pc = "done"
                 /\ req'[w].code = 500]_vars

C14_Witness ==
  \E w \in Workers :
    /\ req[w].pc = "an_wait"
    /\ req[w].outcomes = <<"ok", "upload_failed", "ok">>
    /\ req[w].submitted = <<FileInput(1), FileInput(3), SYSTEM_PROMPT>>

Returned(fn) == call.fn = fn /\ call.returned

\* The patterns that match the lower-cased text, by place in the list.
MatchingPatterns(content) ==
  {k \in 1..Len(patterns) : FindAll(patterns[k], Lower(content)) # <<>>}

FirstMatchingPattern(content) ==
  CHOOSE k \in MatchingPatterns(content) : \A j \in MatchingPatterns(content) : k <= j

\* The numeric value of a captured group; none (NULL) for commas alone.
NumericValue(tok) == IF tok.kind = "amount" THEN tok.value ELSE NULL

\* C15 as stated: for a text in which at least one labelled pattern
\* matches, the result is the numeric value of the last match of the first
\* pattern that matches; no lower pattern and no unlabelled amount has a say.
C15_FirstMatchingPatternWins ==
  (Returned("extract_price_from_message") /\ MatchingPatterns(call.args[1]) # {}) =>
    call.result =
      NumericValue(Last(FindAll(patterns[FirstMatchingPattern(call.args[1])],
                                Lower(call.args[1]))))

\* The values of the amount tokens of a text that exceed 100.
AmountsAboveFloor(content) ==
  {v \in Amounts : v > 100 /\ \E i \in 1..Len(content) : content[i] = Amount(v)}

\* C16: for a text in which no labelled pattern matches, the result is the
\* largest amount token above 100, and it is 'not found' exactly when no
\* amount token exceeds 100.
C16_FallbackIsLargestAbove100 ==
  (Returned("extract_price_from_message") /\ MatchingPatterns(call.args[1]) = {}) =>
    LET above == AmountsAboveFloor(call.args[1])
    IN /\ call.result = NULL <=> above = {}
       /\ above # {} => (call.result \in above /\ \A v \in above : v <= call.result)

C16_Witness ==
  /\ Returned("extract_price_from_message")
  /\ call.args[1] = <<Amount(250), Word("fee"), Amount(1500), Word("fee")>>
  /\ call.result = 1500

\* C17 as stated: two calls of the pricing strategy with the same company
\* name, round and target price, in one process run or in two, give the
\* same multiplier and the same suggested price.
C17_PricingIsDeterministic ==
  [][(/\ call.fn = "generate_supplier_response"
      /\ call'.fn = "generate_supplier_response"
      /\ call'.args = call.args) =>
       call'.result = call.result]_vars

\* The step in which negotiation-status answers 200.
StatusAnswered(w) ==
  IsIdle(w) /\ req'[w].op = "status" /\ req'[w].code = 200

\* The suppliers' entries of a negotiation-status response.
Entries(w) == req'[w].body.suppliers

\* C18 as stated: negotiation-status reports the savings metric for every
\* supplier whose status is completed and for no other.
C18_MetricsForEveryCompleted ==
  [][\A w \in Workers :
       StatusAnswered(w) =>
         \A i \in 1..Len(Entries(w)) :
           Entries(w)[i].metrics.present <=> Entries(w)[i].status = "completed"]_vars

\* C18 amended: negotiation-status reports the savings metric for exactly
\* the suppliers that are completed and have both an initial_price and a
\* final_price that are set and not zero; in it savings is initial_price
\* minus final_price, and savings_percent is savings / initial_price * 100
\* to the nearest tenth.
C18_MetricsForCompletedWithPrices ==
  [][\A w \in Workers :
       StatusAnswered(w) =>
         \A i \in 1..Len(Entries(w)) :
           LET e == Entries(w)[i]
               sup == suppliers[e.id]
               m == e.metrics
           IN /\ m.present <=>
                   /\ sup.status = "completed"
                   /\ sup.initial_price \notin {NULL, 0}
                   /\ sup.final_price \notin {NULL, 0}
              /\ m.present =>
                   /\ m.savings = sup.initial_price - sup.final_price
                   /\ 2 * (m.savings_percent * sup.initial_price - 1000 * m.savings)
                        <= sup.initial_price
                   /\ 2 * (1000 * m.savings - m.savings_percent * sup.initial_price)
                        <= sup.initial_price]_vars

C18_Witness ==
  \E w \in Workers :
    /\ req[w].pc = "done" /\ req[w].op = "status" /\ req[w].code = 200
    /\ \E i \in 1..Len(req[w].body.suppliers) :
         LET m == req[w].body.suppliers[i].metrics
         IN m.present /\ m.savings > 0 /\ m.savings_percent > 0

\* The messages a step appends to the table.
Appended == SubSeq(messages', Len(messages) + 1, Len(messages'))

\* C19: with requests served one at a time, every successful advance
\* appends exactly one supplier-sent message.  If the round was below 2
\* before the call, the call raises it by exactly 1, appends after the
\* supplier message exactly one buyer-sent message without a price, and
\* leaves final_price as it was; if the round was 2, it appends no buyer
\* message, leaves the round at 2 and sets final_price to the price recorded
\* on the supplier message it appended.
C19_AdvanceStep ==
  [][\A w \in Workers :
       AdvanceCommitted(w) =>
         LET p == req[w].supplier_id
             before == suppliers[p]
             after == suppliers'[p]
         IN /\ SubSeq(messages', 1, Len(messages)) = messages
            /\ Len(Appended) >= 1
            /\ Appended[1].supplier_id = p
            /\ Appended[1].sender = "supplier"
            /\ IF before.negotiation_round < 2
               THEN /\ after.negotiation_round = before.negotiation_round + 1
                    /\ Len(Appended) = 2
                    /\ Appended[2] = NewMessage(p, "buyer", NULL)
                    /\ after.final_price = before.final_price
               ELSE /\ after.negotiation_round = 2
                    /\ Len(Appended) = 1
                    /\ after.final_price = Appended[1].price_mentioned]_vars

C19_Witness ==
  \E p \in SupplierIdsStored :
    /\ history[p] = [advance |-> 3, accept |-> 0]
    /\ NumSupplierMessages(p) = 3
    /\ Len(BuyerMessages(messages, p)) = 3
    /\ Last(MessagesOf(messages, p)).sender = "supplier"
    /\ suppliers[p].final_price = LastSupplierPrice(p)

\* C20: a generation call that fails inside advance ends the request with
\* an error (no second attempt, no substitute text), and no step of an
\* advance request other than its successful commit writes to the database:
\* the supplier's messages, round, status and prices stay as they were.
C20_FailedAdvancePersistsNothing ==
  [][\A w \in Workers :
       (/\ req'[w] # req[w]
        /\ req[w].op = "advance" \/ req'[w].op = "advance"
        /\ ~AdvanceCommitted(w)) =>
         /\ db' = db
         /\ req[w].pc = "adv_gen" =>
              (req'[w].pc = "done" /\ req'[w].code = 500)]_vars

C20_Witness ==
  \E w \in Workers :
    /\ req[w].pc = "done" /\ req[w].op = "advance" /\ req[w].code = 500
    /\ req[w].supplier_id \in SupplierIdsStored
    /\ history[req[w].supplier_id] = [advance |-> 1, accept |-> 0]
    /\ suppliers[req[w].supplier_id].negotiation_round = 1
    /\ NumSupplierMessages(req[w].supplier_id) = 1

\* The supplier row p was inserted by a create-negotiation request that ran
\* to its end.
CreatedBySuccessfulCreate(p) == suppliers[p].session_id \in created

\* C21: with requests served one at a time, every supplier created by a
\* successful create-negotiation has, in every reachable state,
\* negotiation_round = min(2, number of its supplier-sent messages) and
\* 1 + negotiation_round buyer-sent messages, whatever successful advances,
\* failed advances and accepts have run on it.
C21_RoundCountsMessages ==
  \A p \in SupplierIdsStored :
    CreatedBySuccessfulCreate(p) =>
      /\ suppliers[p].negotiation_round = Min(2, NumSupplierMessages(p))
      /\ Len(BuyerMessages(messages, p)) = 1 + suppliers[p].negotiation_round

\* Three advances and an accept have succeeded on the supplier and one more
\* advance has just failed on it: three supplier-sent messages, round 2.
C21_Witness ==
  \E w \in Workers :
    /\ req[w].pc = "done" /\ req[w].op = "advance" /\ req[w].code = 500
    /\ req[w].supplier_id \in SupplierIdsStored
    /\ CreatedBySuccessfulCreate(req[w].supplier_id)
    /\ history[req[w].supplier_id] = [advance |-> 3, accept |-> 1]
    /\ NumSupplierMessages(req[w].supplier_id) = 3
    /\ suppliers[req[w].supplier_id].negotiation_round = 2

\* C22: once an advance has succeeded on a supplier, its initial_price is
\* the price recorded (price_mentioned) on its first supplier-sent message.
C22_InitialPriceIsFirstQuote ==
  \A p \in SupplierIdsStored :
    history[p].advance >= 1 =>
      /\ SupplierMessages(messages, p) # <<>>
      /\ suppliers[p].initial_price =
           Head(SupplierMessages(messages, p)).price_mentioned

\* C23: in every reachable state every stored supplier has at least one
\* message, and its earliest message is buyer-sent.
C23_EverySupplierStartsWithBuyerMessage ==
  \A p \in SupplierIdsStored :
    /\ MessagesOf(messages, p) # <<>>
    /\ Head(MessagesOf(messages, p)).sender = "buyer"

\* C24: advance(S, P) prices P's quote from the target price of the session
\* that owns P, and a call advance(S, P) or accept(S, P) in which P belongs
\* to a session other than S changes neither P nor its messages.
C24_CallsStayInsideTheirSession ==
  [][\A w \in Workers :
       LET p == req[w].supplier_id
           owner == suppliers[p].session_id
       IN /\ AdvanceCommitted(w) =>
               req[w].target_price = sessions[owner].target_price
          /\ ((AdvanceCommitted(w) \/ AcceptCommitted(w))
                /\ owner # req[w].session_id) =>
               (suppliers' = suppliers /\ messages' = messages)]_vars

====
